---------------------------- MODULE Spec2Model ----------------------------
(***************************************************************************)
(* A model of src/main.py ("A bit Racey"): the corner-anchored point       *)
(* specifiers, the boxes, the window-resize handler, the player's tick     *)
(* tasks and the session loop of Game.                                     *)
(*                                                                         *)
(* Numbers.  The program computes with Python floats.  The model computes  *)
(* with exact rationals <<n, d>> (d > 0, lowest terms): every value the    *)
(* program reaches from the inputs enumerated here is a small rational,    *)
(* and the only float operation that can fail, a division by zero          *)
(* (ZeroDivisionError), is modelled as that failure.                       *)
(***************************************************************************)
EXTENDS Integers, Sequences, FiniteSets, TLC

(***************************************************************************)
(* Bounds of the model.                                                    *)
(***************************************************************************)
\* Input events delivered in one run of the program.
MaxEvents == 3
\* Events are delivered only in the first MaxInputFrames frames of a session.
MaxInputFrames == 1

(***************************************************************************)
(* Program constants.                                                      *)
(***************************************************************************)
InitialWidth == 300
InitialHeight == 300
CarBaseSpeed == 5
BlockBaseSpeed == 5
BlockSize == 50
BottomPadding == 5
FirstBlockSpawnAt == -700
NextBlockSpawnAt == -20
\* Sizes that come from assets and from font rendering (not in the source):
\* the car image and the rendered "NN FPS" text.
CarWidth == 40
CarHeight == 60
FpsWidth == 40
FpsHeight == 12

(***************************************************************************)
(* Exact arithmetic standing for Python's float arithmetic.                *)
(***************************************************************************)
Abs(i) == IF i < 0 THEN -i ELSE i

RECURSIVE GCD(_, _)
GCD(a, b) == IF b = 0 THEN a ELSE GCD(b, a % b)

\* n / d in lowest terms with a positive denominator (d # 0).
Norm(n, d) ==
    LET s == IF d < 0 THEN -1 ELSE 1
        g == GCD(Abs(n), Abs(d))
    IN  <<(s * n) \div g, (s * d) \div g>>

R(i) == <<i, 1>>
RAdd(a, b) == Norm(a[1] * b[2] + b[1] * a[2], a[2] * b[2])
RSub(a, b) == Norm(a[1] * b[2] - b[1] * a[2], a[2] * b[2])
RMul(a, b) == Norm(a[1] * b[1], a[2] * b[2])
\* a / b, for b # 0 (Python raises ZeroDivisionError otherwise).
RDiv(a, b) == Norm(a[1] * b[2], a[2] * b[1])
RNeg(a) == <<-a[1], a[2]>>
RAbs(a) == <<Abs(a[1]), a[2]>>
RLe(a, b) == a[1] * b[2] <= b[1] * a[2]
RLt(a, b) == a[1] * b[2] < b[1] * a[2]
RHalf(a) == RDiv(a, R(2))
RZero(a) == a[1] = 0

(***************************************************************************)
(* Corner: the (x-multiplier, y-multiplier) pairs.                         *)
(***************************************************************************)
TOP_LEFT == <<0, 0>>
TOP_RIGHT == <<1, 0>>
BOTOM_LEFT == <<0, 1>>
BOTOM_RIGHT == <<1, 1>>
Corner == {TOP_LEFT, TOP_RIGHT, BOTOM_LEFT, BOTOM_RIGHT}

(***************************************************************************)
(* Box.                                                                    *)
(***************************************************************************)
Box(x1, y1, x2, y2) ==
    [x1 |-> x1, y1 |-> y1, x2 |-> x2, y2 |-> y2,
     width |-> RSub(x2, x1), height |-> RSub(y2, y1)]

top(b) == b.y1
bottom(b) == b.y2
left(b) == b.x1
right(b) == b.x2

center(b) == <<RAdd(left(b), RHalf(b.width)), RAdd(top(b), RHalf(b.height))>>

\* is_inside with an overflow equal to the margin counted as outside.
is_inside_strict(self, outer_box, allowed_margin) ==
    /\ RLt(RSub(left(outer_box), left(self)), allowed_margin)
    /\ RLt(RSub(right(self), right(outer_box)), allowed_margin)
    /\ RLt(RSub(top(outer_box), top(self)), allowed_margin)
    /\ RLt(RSub(bottom(self), bottom(outer_box)), allowed_margin)

is_inside(self, outer_box, allowed_margin) ==
    LET is_within_x == /\ RLe(RSub(left(outer_box), left(self)), allowed_margin)
                       /\ RLe(RSub(right(self), right(outer_box)), allowed_margin)
        is_within_y == /\ RLe(RSub(top(outer_box), top(self)), allowed_margin)
                       /\ RLe(RSub(bottom(self), bottom(outer_box)), allowed_margin)
    IN  is_within_x /\ is_within_y

\* is_outside with boxes that merely touch counted as outside each other.
is_outside_or_touching(self, other_box) ==
    \/ RLe(right(self), left(other_box)) \/ RLe(right(other_box), left(self))
    \/ RLe(bottom(self), top(other_box)) \/ RLe(bottom(other_box), top(self))

is_outside(self, other_box) ==
    LET is_outside_x == \/ RLt(right(self), left(other_box))
                        \/ RLt(right(other_box), left(self))
        is_outside_y == \/ RLt(bottom(self), top(other_box))
                        \/ RLt(bottom(other_box), top(self))
    IN  is_outside_x \/ is_outside_y

\* Game.window_box for a window of dimensions win = <<width, height>>.
window_box(win) == Box(R(0), R(0), R(win[1]), R(win[2]))

(***************************************************************************)
(* PixelsPoint: [x, y, relative_to].                                       *)
(***************************************************************************)
PixelsPoint(x, y, relative_to) == [x |-> x, y |-> y, relative_to |-> relative_to]

\* resolve without the subtraction of the entity's size: the anchored corner
\* of the window rather than the entity's top-left corner.
resolve_without_size(p, win, width, height) ==
    LET multiplier_x == p.relative_to[1]
        multiplier_y == p.relative_to[2]
    IN  <<RAdd(RMul(R(multiplier_x), window_box(win).width),
               IF multiplier_x # 0 THEN RNeg(p.x) ELSE p.x),
          RAdd(RMul(R(multiplier_y), window_box(win).height),
               IF multiplier_y # 0 THEN RNeg(p.y) ELSE p.y)>>

resolve(p, win, width, height) ==
    LET outer_width == window_box(win).width
        outer_height == window_box(win).height
        multiplier_x == p.relative_to[1]
        multiplier_y == p.relative_to[2]
        base_x_coordinate == RMul(R(multiplier_x), outer_width)
        base_y_coordinate == RMul(R(multiplier_y), outer_height)
        x_offset == RSub(IF multiplier_x # 0 THEN RNeg(p.x) ELSE p.x,
                         RMul(width, R(multiplier_x)))
        y_offset == RSub(IF multiplier_y # 0 THEN RNeg(p.y) ELSE p.y,
                         RMul(height, R(multiplier_y)))
    IN  <<RAdd(base_x_coordinate, x_offset), RAdd(base_y_coordinate, y_offset)>>

\* move_right that adds to the stored offset whatever the corner.
move_right_adding(p, pixels) == [p EXCEPT !.x = RAdd(p.x, pixels)]

move_right(p, pixels) ==
    LET x_corner == p.relative_to[1]
        pixel_movement == IF x_corner # 0 THEN RNeg(pixels) ELSE pixels
    IN  [p EXCEPT !.x = RAdd(p.x, pixel_movement)]

move_left(p, pixels) ==
    LET x_corner == p.relative_to[1]
        pixel_movement == IF x_corner # 0 THEN pixels ELSE RNeg(pixels)
    IN  [p EXCEPT !.x = RAdd(p.x, pixel_movement)]

move_down(p, pixels) ==
    LET y_corner == p.relative_to[2]
        pixel_movement == IF y_corner # 0 THEN RNeg(pixels) ELSE pixels
    IN  [p EXCEPT !.y = RAdd(p.y, pixel_movement)]

move_up(p, pixels) ==
    LET y_corner == p.relative_to[2]
        pixel_movement == IF y_corner # 0 THEN pixels ELSE RNeg(pixels)
    IN  [p EXCEPT !.y = RAdd(p.y, pixel_movement)]

\* move_to without the correction for the entity's own size.
move_to_without_size(p, target_coordinates, win, width, height) ==
    LET multiplier_x == p.relative_to[1]
        multiplier_y == p.relative_to[2]
        x_difference == RSub(target_coordinates[1],
                             RMul(R(multiplier_x), window_box(win).width))
        y_difference == RSub(target_coordinates[2],
                             RMul(R(multiplier_y), window_box(win).height))
    IN  [p EXCEPT !.x = IF multiplier_x # 0 THEN RNeg(x_difference) ELSE x_difference,
                  !.y = IF multiplier_y # 0 THEN RNeg(y_difference) ELSE y_difference]

move_to(p, target_coordinates, win, width, height) ==
    LET target_x == target_coordinates[1]
        target_y == target_coordinates[2]
        outer_width == window_box(win).width
        outer_height == window_box(win).height
        multiplier_x == p.relative_to[1]
        multiplier_y == p.relative_to[2]
        base_x_coordinate == RMul(R(multiplier_x), outer_width)
        base_y_coordinate == RMul(R(multiplier_y), outer_height)
        x_difference == RAdd(RSub(target_x, base_x_coordinate),
                             RMul(width, R(multiplier_x)))
        y_difference == RAdd(RSub(target_y, base_y_coordinate),
                             RMul(height, R(multiplier_y)))
        new_x == IF multiplier_x # 0 THEN RNeg(x_difference) ELSE x_difference
        new_y == IF multiplier_y # 0 THEN RNeg(y_difference) ELSE y_difference
    IN  [p EXCEPT !.x = new_x, !.y = new_y]

(***************************************************************************)
(* PercentagePoint: [x, y, relative_to] with 0 <= x < 1 and 0 <= y < 1.    *)
(***************************************************************************)
\* The assertions with the upper bound included.
PercentagePointAcceptsOne(x, y) ==
    /\ RLe(R(0), x) /\ RLe(x, R(1))
    /\ RLe(R(0), y) /\ RLe(y, R(1))

\* The two assertions of PercentagePoint.__init__.
PercentagePointAccepts(x, y) ==
    /\ RLe(R(0), x) /\ RLt(x, R(1))
    /\ RLe(R(0), y) /\ RLt(y, R(1))

PercentagePoint(x, y) == [x |-> x, y |-> y, relative_to |-> TOP_LEFT]

resolve_percentage(p, win, width, height) ==
    LET outer_box == window_box(win)
        x_pixels == RMul(p.x, outer_box.width)
        y_pixels == RMul(p.y, outer_box.height)
        pixels_point == PixelsPoint(x_pixels, y_pixels, p.relative_to)
    IN  resolve(pixels_point, win, width, height)

(***************************************************************************)
(* Inputs of the model.                                                    *)
(***************************************************************************)
\* Window dimensions a VIDEORESIZE event may carry.
WindowSizes == {<<800, 400>>, <<50, 50>>}
\* Normalised (x, y) positions a finger event may carry; SDL reports them in
\* the closed range 0..1, so 1 itself can arrive.
FingerPoints == {<<<<51, 100>>, <<1, 2>>>>, <<<<1, 10>>, <<1, 2>>>>,
                 <<<<1, 1>>, <<1, 2>>>>, <<<<1, 2>>, <<1, 1>>>>}
FingerIds == {1, 2}
\* Keys: the two bound keys and one key without a binding.
Keys == {"K_LEFT", "K_RIGHT", "K_SPACE"}
\* Values random.randrange(0, width) may return for a new Block.
BlockSpawnXs(w) == {0, w \div 2}

(***************************************************************************)
(* State.                                                                  *)
(***************************************************************************)
VARIABLES
    window,                 \* (width, height) of the display surface
    old_window_dimensions,  \* Game.old_window_dimensions
    has_died,               \* Game.has_died
    exited,                 \* Game.exited
    objects,                \* Game.objects: the entities, in list order
    position,               \* entity -> its PixelsPoint
    velocity,               \* entity -> (x, y) of its Velocity
    tick_tasks,             \* entity -> its registered tick tasks, in order
    is_solid,               \* entity -> GameObject.is_solid
    window_resize_handler,  \* entity -> whether it has a LinearPositionScaling
    pressed_directions,     \* Car.pressed_directions
    movement_targets,       \* Car.movement_targets, in insertion order
    key_action_callbacks,   \* Game.key_action_callbacks: the actions bound
    key_up_callbacks,       \* Game.key_up_callbacks: key -> direction undone
    held_keys,              \* the bound keys down by the session's key events, latest last
    pc,                     \* where the program is: run, events, tick, frame_end, quit
    obj_idx,                \* index in objects of the entity being ticked
    task_idx,               \* index in its tick_tasks of the task to run next
    error,                  \* the uncaught exception that ended the program
    crash_calls,            \* calls of Game.trigger_crash in this frame, by cause
    ran,                    \* (entity, task) pairs run in this frame, in order
    events_left,            \* input events still to be delivered
    frame,                  \* number of the session's current frame (capped)
    last_event              \* the event on_event handled last in this polling step

vars == <<window, old_window_dimensions, has_died, exited, objects, position,
          velocity, tick_tasks, is_solid, window_resize_handler,
          pressed_directions, movement_targets, key_action_callbacks,
          key_up_callbacks, held_keys, pc, obj_idx, task_idx, error, crash_calls, ran,
          events_left, frame, last_event>>

\* The variables of the entities and of the player's input.
entity_vars == <<objects, position, velocity, tick_tasks, is_solid,
                 window_resize_handler>>
input_vars == <<pressed_directions, movement_targets, key_action_callbacks,
                key_up_callbacks, held_keys>>
loop_vars == <<pc, obj_idx, task_idx, crash_calls, ran, frame>>

NoEvent == [type |-> "NONE"]
EmptyMap == [o \in {} |-> 0]

\* f with key k set to v (Python's d[k] = v).
Put(f, k, v) == [x \in DOMAIN f \cup {k} |-> IF x = k THEN v ELSE f[x]]

(***************************************************************************)
(* GameObject.                                                             *)
(***************************************************************************)
width(o) ==
    CASE o = "car" -> R(CarWidth)
      [] o = "block" -> R(BlockSize)
      [] o = "fps" -> R(FpsWidth)

height(o) ==
    CASE o = "car" -> R(CarHeight)
      [] o = "block" -> R(BlockSize)
      [] o = "fps" -> R(FpsHeight)

\* GameObject.coordinates / collision_box of entity o at point p in window win.
coordinates(p, o, win) == resolve(p, win, width(o), height(o))

collision_box(p, o, win) ==
    LET c == coordinates(p, o, win)
    IN  Box(c[1], c[2], RAdd(c[1], width(o)), RAdd(c[2], height(o)))

calculate_center_bounds(o, parent_width, parent_height) ==
    LET x_padding == RHalf(width(o))
        y_padding == RHalf(height(o))
    IN  Box(RAdd(R(0), x_padding), RAdd(R(0), y_padding),
            RSub(parent_width, x_padding), RSub(parent_height, y_padding))

\* The two divisions of calculate_position_percentage raise ZeroDivisionError
\* when the bounds have no width or no height.
PercentageFails(bounds) == RZero(bounds.width) \/ RZero(bounds.height)

calculate_position_percentage(p, o, win, bounds) ==
    LET c == center(collision_box(p, o, win))
    IN  <<RDiv(RSub(c[1], left(bounds)), bounds.width),
          RDiv(RSub(c[2], top(bounds)), bounds.height)>>

\* The mapping without the offset of the new bounds.
map_relative_position_without_offset(position_percentage, new_center_point_bounds) ==
    <<RMul(new_center_point_bounds.width, position_percentage[1]),
      RMul(new_center_point_bounds.height, position_percentage[2])>>

map_relative_position_to_box(position_percentage, new_center_point_bounds) ==
    LET limit == new_center_point_bounds
    IN  <<RAdd(left(limit), RMul(limit.width, position_percentage[1])),
          RAdd(top(limit), RMul(limit.height, position_percentage[2]))>>

is_within_window(p, o, win, allowed_margin) ==
    is_inside(collision_box(p, o, win), window_box(win), allowed_margin)

(***************************************************************************)
(* LinearPositionScaling / WindowResizeHandler.                            *)
(***************************************************************************)
\* get_new_position for entity o at point p; event = [old_dimensions, w, h];
\* win is the window the game reports while the event is handled.
get_new_position(p, o, win, event) ==
    LET old_center_point_bounds ==
            calculate_center_bounds(o, R(event.old_dimensions[1]),
                                       R(event.old_dimensions[2]))
        position_percentage ==
            calculate_position_percentage(p, o, win, old_center_point_bounds)
        new_center_point_bounds ==
            calculate_center_bounds(o, R(event.w), R(event.h))
        new_center ==
            map_relative_position_to_box(position_percentage,
                                         new_center_point_bounds)
    IN  <<RSub(new_center[1], RHalf(width(o))),
          RSub(new_center[2], RHalf(height(o)))>>

get_new_position_fails(o, event) ==
    PercentageFails(calculate_center_bounds(o, R(event.old_dimensions[1]),
                                               R(event.old_dimensions[2])))

handle_window_resize(p, o, win, event) ==
    move_to(p, get_new_position(p, o, win, event), win, width(o), height(o))

(***************************************************************************)
(* Construction: Game.__init__, then Game.run.                             *)
(***************************************************************************)
Init ==
    /\ window = <<InitialWidth, InitialHeight>>
    /\ old_window_dimensions = <<InitialWidth, InitialHeight>>
    /\ has_died = FALSE
    /\ exited = FALSE
    /\ objects = <<>>
    /\ position = EmptyMap
    /\ velocity = EmptyMap
    /\ tick_tasks = EmptyMap
    /\ is_solid = EmptyMap
    /\ window_resize_handler = EmptyMap
    /\ pressed_directions = <<>>
    /\ movement_targets = <<>>
    /\ key_action_callbacks = {}
    /\ key_up_callbacks = EmptyMap
    /\ held_keys = <<>>
    /\ pc = "run"
    /\ obj_idx = 0
    /\ task_idx = 0
    /\ error = "none"
    /\ crash_calls = <<>>
    /\ ran = <<>>
    /\ events_left = MaxEvents
    /\ frame = 0
    /\ last_event = NoEvent

(***************************************************************************)
(* Car, Block, FPSCounter construction.                                    *)
(***************************************************************************)
calculate_starting_x(win) ==
    LET center_position == RHalf(R(win[1]))
    IN  RSub(center_position, RHalf(width("car")))

calculate_starting_y(win) ==
    RSub(R(win[2]), RAdd(height("car"), R(BottomPadding)))

\* A spawn point without the bottom padding.
CarSpawnPointWithoutPadding(win) ==
    PixelsPoint(calculate_starting_x(win), RSub(R(win[2]), height("car")), TOP_LEFT)

\* Car.spawn_point
CarSpawnPoint(win) ==
    PixelsPoint(calculate_starting_x(win), calculate_starting_y(win), TOP_LEFT)

\* The tick tasks with the velocity registered after the four checks.
CarTickTasksVelocityLast ==
    <<"check_collision_with_window_edge", "check_collision_with_other_objects",
      "set_velocity_from_keypresses", "move_towards_movement_target", "on_tick">>

\* Car.__init__: Velocity(self, 5) registers on_tick, then the four checks are
\* appended in this order.
CarTickTasks ==
    <<"on_tick", "check_collision_with_window_edge",
      "check_collision_with_other_objects", "set_velocity_from_keypresses",
      "move_towards_movement_target">>

\* Block.__init__: Velocity(self, 5) registers on_tick.
BlockTickTasks == <<"on_tick">>

\* FPSCounter.__init__ registers no tick task.
FpsTickTasks == <<>>

\* GameObject.__init__'s default: solid = True, which FPSCounter keeps.
FpsIsSolid == TRUE

\* Block.spawn_point
BlockSpawnPoint(spawn_at_x, spawn_at) == PixelsPoint(R(spawn_at_x), R(spawn_at), TOP_LEFT)

\* Velocity.shove_x / shove_y
shove_x(v, base_speed, multiplier) == <<base_speed * multiplier, v[2]>>
shove_y(v, base_speed, multiplier) == <<v[1], base_speed * multiplier>>

\* A new Block whose velocity was never shoved.
BlockVelocityAtRest == <<0, 0>>

\* The velocity of a new Block: Velocity(self, 5), then shove_y().
BlockVelocity == shove_y(<<0, 0>>, BlockBaseSpeed, 1)

(***************************************************************************)
(* Game.run and Game.game_session up to its loop (lines 336-355).          *)
(***************************************************************************)
GameSession ==
    /\ pc = "run" /\ error = "none"
    /\ ~exited
    /\ \E spawn_at_x \in BlockSpawnXs(window[1]) :
         /\ has_died' = FALSE
         /\ objects' = objects \o <<"car", "block", "fps">>
         /\ position' = Put(Put(Put(position, "car", CarSpawnPoint(window)),
                                "block", BlockSpawnPoint(spawn_at_x, FirstBlockSpawnAt)),
                            "fps", PixelsPoint(R(0), R(0), TOP_RIGHT))
         /\ velocity' = Put(Put(velocity, "car", <<0, 0>>), "block", BlockVelocity)
         /\ tick_tasks' = Put(Put(Put(tick_tasks, "car", CarTickTasks),
                                  "block", BlockTickTasks), "fps", FpsTickTasks)
         /\ is_solid' = Put(Put(Put(is_solid, "car", TRUE), "block", TRUE),
                            "fps", FpsIsSolid)
         /\ window_resize_handler' =
                Put(Put(Put(window_resize_handler, "car", TRUE), "block", TRUE),
                    "fps", FALSE)
    /\ pressed_directions' = <<>>
    /\ movement_targets' = <<>>
    /\ held_keys' = <<>>
    /\ key_action_callbacks' = key_action_callbacks \cup {"move.left", "move.right"}
    /\ pc' = "events"
    /\ frame' = 1
    /\ last_event' = NoEvent
    /\ UNCHANGED <<window, old_window_dimensions, exited, key_up_callbacks,
                   obj_idx, task_idx, error, crash_calls, ran, events_left>>

\* Game.run's loop ends once exited is set; pygame.quit() follows.
Quit ==
    /\ pc = "run" /\ error = "none"
    /\ exited
    /\ pc' = "quit"
    /\ UNCHANGED <<window, old_window_dimensions, has_died, exited, entity_vars,
                   input_vars, obj_idx, task_idx, error, crash_calls, ran,
                   events_left, frame, last_event>>

(***************************************************************************)
(* Game.on_event, one action per branch.  An event is delivered while the  *)
(* session polls (for event in pygame.event.get()).                        *)
(***************************************************************************)
Polling ==
    /\ pc = "events" /\ error = "none"
    /\ events_left > 0
    /\ frame <= MaxInputFrames

OnQuit ==
    /\ Polling
    /\ exited' = TRUE
    /\ events_left' = events_left - 1
    /\ last_event' = [type |-> "QUIT"]
    /\ UNCHANGED <<window, old_window_dimensions, has_died, entity_vars,
                   input_vars, loop_vars, error>>

\* The resize handlers of the entities objs (in list order) applied to the
\* positions pos; stops at the first entity whose handler raises.
RECURSIVE ResizeObjects(_, _, _, _)
ResizeObjects(objs, pos, win, event) ==
    IF objs = <<>> THEN [position |-> pos, raised |-> FALSE]
    ELSE LET o == Head(objs) IN
         IF ~window_resize_handler[o]
         THEN ResizeObjects(Tail(objs), pos, win, event)
         ELSE IF get_new_position_fails(o, event)
         THEN [position |-> pos, raised |-> TRUE]
         ELSE ResizeObjects(Tail(objs),
                  [pos EXCEPT ![o] = handle_window_resize(pos[o], o, win, event)],
                  win, event)

OnVideoResize ==
    /\ Polling
    /\ \E size \in WindowSizes :
         /\ size # window
         /\ LET event == [old_dimensions |-> old_window_dimensions,
                          w |-> size[1], h |-> size[2]]
                done == ResizeObjects(objects, position, size, event)
            IN  /\ window' = size
                /\ position' = done.position
                /\ error' = IF done.raised THEN "ZeroDivisionError" ELSE error
                /\ old_window_dimensions' =
                       IF done.raised THEN old_window_dimensions ELSE size
                /\ last_event' = [type |-> "VIDEORESIZE", w |-> size[1],
                                  h |-> size[2],
                                  old_dimensions |-> old_window_dimensions,
                                  old_position |-> position]
    /\ events_left' = events_left - 1
    /\ UNCHANGED <<has_died, exited, objects, velocity, tick_tasks, is_solid,
                   window_resize_handler, input_vars, loop_vars>>

\* Game.keybinds
keybinds == [k \in {"K_LEFT", "K_RIGHT"} |->
                IF k = "K_LEFT" THEN "move.left" ELSE "move.right"]

\* The direction start_moving_left / start_moving_right pushes, and its undo removes.
DirectionOf(action) == IF action = "move.left" THEN "LEFT" ELSE "RIGHT"

\* list.remove(value): the list without the first occurrence of value.
RECURSIVE Remove(_, _)
Remove(list, value) ==
    IF list = <<>> THEN <<>>
    ELSE IF Head(list) = value THEN Tail(list)
    ELSE <<Head(list)>> \o Remove(Tail(list), value)

Contains(list, value) == \E i \in 1..Len(list) : list[i] = value

\* Game.trigger_key_action, with the callbacks Car.__init__ registered; the
\* keyboard's side of the event is kept in held_keys.
OnKeyDown ==
    /\ Polling
    /\ \E key \in Keys :
         /\ IF key \in DOMAIN keybinds /\ keybinds[key] \in key_action_callbacks
            THEN /\ pressed_directions' =
                        Append(pressed_directions, DirectionOf(keybinds[key]))
                 /\ key_up_callbacks' =
                        Put(key_up_callbacks, key, DirectionOf(keybinds[key]))
            ELSE UNCHANGED <<pressed_directions, key_up_callbacks>>
         /\ held_keys' = IF key \in DOMAIN keybinds
                         THEN Append(Remove(held_keys, key), key)
                         ELSE held_keys
         /\ last_event' = [type |-> "KEYDOWN", key |-> key]
    /\ events_left' = events_left - 1
    /\ UNCHANGED <<window, old_window_dimensions, has_died, exited, entity_vars,
                   movement_targets, key_action_callbacks, loop_vars, error>>

\* The undo callback runs list.remove, which raises ValueError when the
\* direction is not in the list.
OnKeyUp ==
    /\ Polling
    /\ \E key \in Keys :
         /\ IF key \in DOMAIN key_up_callbacks
            THEN IF Contains(pressed_directions, key_up_callbacks[key])
                 THEN /\ pressed_directions' =
                             Remove(pressed_directions, key_up_callbacks[key])
                      /\ error' = error
                 ELSE /\ pressed_directions' = pressed_directions
                      /\ error' = "ValueError"
            ELSE UNCHANGED <<pressed_directions, error>>
         /\ held_keys' = Remove(held_keys, key)
         /\ last_event' = [type |-> "KEYUP", key |-> key]
    /\ events_left' = events_left - 1
    /\ UNCHANGED <<window, old_window_dimensions, has_died, exited, entity_vars,
                   movement_targets, key_action_callbacks, key_up_callbacks,
                   loop_vars>>

\* Car.movement_targets is a dict: d[k] = v keeps k's place when k is present
\* and appends k otherwise; d.pop(k) removes it.
HasTarget(targets, finger_id) ==
    \E i \in 1..Len(targets) : targets[i].finger_id = finger_id

\* A store that takes the finger's entry out and puts it back as the newest.
SetTargetReinserting(targets, finger_id, point) ==
    Append(SelectSeq(targets, LAMBDA t : t.finger_id # finger_id),
           [finger_id |-> finger_id, point |-> point])

SetTarget(targets, finger_id, point) ==
    IF HasTarget(targets, finger_id)
    THEN [i \in 1..Len(targets) |->
             IF targets[i].finger_id = finger_id
             THEN [finger_id |-> finger_id, point |-> point] ELSE targets[i]]
    ELSE Append(targets, [finger_id |-> finger_id, point |-> point])

\* A pop that falls back to the newest target when the finger is unknown.
PopTargetOrNewest(targets, finger_id) ==
    IF \E i \in 1..Len(targets) : targets[i].finger_id = finger_id
    THEN SelectSeq(targets, LAMBDA t : t.finger_id # finger_id)
    ELSE SubSeq(targets, 1, Len(targets) - 1)

PopTarget(targets, finger_id) ==
    SelectSeq(targets, LAMBDA t : t.finger_id # finger_id)

\* FINGERDOWN and FINGERMOTION: PercentagePoint(event.x, event.y) is built
\* first, and its assertions may fail.
StoreTarget(finger_id, xy) ==
    IF PercentagePointAccepts(xy[1], xy[2])
    THEN /\ movement_targets' =
                SetTarget(movement_targets, finger_id, PercentagePoint(xy[1], xy[2]))
         /\ error' = error
    ELSE /\ movement_targets' = movement_targets
         /\ error' = "AssertionError"

OnFingerDown ==
    /\ Polling
    /\ \E finger_id \in FingerIds, xy \in FingerPoints :
         /\ StoreTarget(finger_id, xy)
         /\ last_event' = [type |-> "FINGERDOWN", finger_id |-> finger_id,
                           x |-> xy[1], y |-> xy[2]]
    /\ events_left' = events_left - 1
    /\ UNCHANGED <<window, old_window_dimensions, has_died, exited, entity_vars,
                   pressed_directions, key_action_callbacks, key_up_callbacks,
                   held_keys, loop_vars>>

OnFingerMotion ==
    /\ Polling
    /\ \E finger_id \in FingerIds, xy \in FingerPoints :
         /\ StoreTarget(finger_id, xy)
         /\ last_event' = [type |-> "FINGERMOTION", finger_id |-> finger_id,
                           x |-> xy[1], y |-> xy[2]]
    /\ events_left' = events_left - 1
    /\ UNCHANGED <<window, old_window_dimensions, has_died, exited, entity_vars,
                   pressed_directions, key_action_callbacks, key_up_callbacks,
                   held_keys, loop_vars>>

\* FINGERUP: a KeyError of pop is caught and ignored.
OnFingerUp ==
    /\ Polling
    /\ \E finger_id \in FingerIds :
         /\ movement_targets' = PopTarget(movement_targets, finger_id)
         /\ last_event' = [type |-> "FINGERUP", finger_id |-> finger_id,
                           known |-> HasTarget(movement_targets, finger_id)]
    /\ events_left' = events_left - 1
    /\ UNCHANGED <<window, old_window_dimensions, has_died, exited, entity_vars,
                   pressed_directions, key_action_callbacks, key_up_callbacks,
                   held_keys, loop_vars, error>>

(***************************************************************************)
(* The frame: after polling, the Block is replaced when it has left the    *)
(* window, then every entity's tick tasks run in list order (lines         *)
(* 361-376).                                                               *)
(***************************************************************************)
\* The index of the first entity at or after index i that has a tick task,
\* 0 when there is none: run_tick_tasks of an entity without tasks does nothing.
RECURSIVE FirstWithTasks(_, _, _)
FirstWithTasks(objs, tasks, i) ==
    IF i > Len(objs) THEN 0
    ELSE IF Len(tasks[objs[i]]) > 0 THEN i
    ELSE FirstWithTasks(objs, tasks, i + 1)

\* Enter the loop "for object in self.objects" from entity index i on.
StartTicksFrom(objs, tasks, i) ==
    LET j == FirstWithTasks(objs, tasks, i)
    IN  IF j = 0
        THEN /\ pc' = "frame_end" /\ obj_idx' = 0 /\ task_idx' = 0
        ELSE /\ pc' = "tick" /\ obj_idx' = j /\ task_idx' = 1

SpawnCheck ==
    /\ pc = "events" /\ error = "none"
    /\ IF RLt(R(window[2]), coordinates(position["block"], "block", window)[2])
       THEN \E spawn_at_x \in BlockSpawnXs(window[1]) :
              /\ objects' = Append(Remove(objects, "block"), "block")
              /\ position' = [position EXCEPT
                                 !["block"] = BlockSpawnPoint(spawn_at_x, NextBlockSpawnAt)]
              /\ velocity' = [velocity EXCEPT !["block"] = BlockVelocity]
              /\ tick_tasks' = [tick_tasks EXCEPT !["block"] = BlockTickTasks]
       ELSE UNCHANGED <<objects, position, velocity, tick_tasks>>
    /\ StartTicksFrom(objects', tick_tasks', 1)
    /\ crash_calls' = <<>>
    /\ ran' = <<>>
    /\ last_event' = NoEvent
    /\ UNCHANGED <<window, old_window_dimensions, has_died, exited, is_solid,
                   window_resize_handler, input_vars, error, events_left, frame>>

CurObj == objects[obj_idx]
CurTask == tick_tasks[CurObj][task_idx]

\* The tick task named task is the next callback run_tick_tasks calls.
AtTask(task) ==
    /\ pc = "tick" /\ error = "none"
    /\ CurTask = task

\* The callback returned: go on to the entity's next task, or the next entity.
TaskDone ==
    /\ IF task_idx < Len(tick_tasks[CurObj])
       THEN /\ pc' = "tick" /\ obj_idx' = obj_idx /\ task_idx' = task_idx + 1
       ELSE StartTicksFrom(objects, tick_tasks, obj_idx + 1)
    /\ ran' = Append(ran, <<CurObj, CurTask>>)
    /\ UNCHANGED frame

\* Game.trigger_crash shows the title and sets has_died; calls is the sequence
\* of causes of the calls made by one tick task.
trigger_crash(calls) ==
    /\ has_died' = (has_died \/ calls # <<>>)
    /\ crash_calls' = crash_calls \o calls

\* Velocity.on_tick
VelocityOnTick ==
    /\ AtTask("on_tick")
    /\ LET x_movement == R(velocity[CurObj][1])
           y_movement == R(velocity[CurObj][2])
       IN  position' = [position EXCEPT
                           ![CurObj] = move_down(move_right(@, x_movement), y_movement)]
    /\ TaskDone
    /\ UNCHANGED <<window, old_window_dimensions, has_died, exited, objects,
                   velocity, tick_tasks, is_solid, window_resize_handler,
                   input_vars, error, crash_calls, events_left, last_event>>

\* The window-edge check with the player's whole width as allowed margin.
WindowEdgeCrashesFullWidth(p, win) ==
    IF ~is_within_window(p, "car", win, width("car"))
    THEN <<"window_edge">> ELSE <<>>

\* Car.check_collision_with_window_edge
WindowEdgeCrashes(p, win) ==
    LET allowed_margin == RHalf(width("car"))
    IN  IF ~is_within_window(p, "car", win, allowed_margin)
        THEN <<"window_edge">> ELSE <<>>

CheckCollisionWithWindowEdge ==
    /\ AtTask("check_collision_with_window_edge")
    /\ trigger_crash(WindowEdgeCrashes(position["car"], window))
    /\ TaskDone
    /\ UNCHANGED <<window, old_window_dimensions, exited, entity_vars,
                   input_vars, error, events_left, last_event>>

\* Car.check_collision_with_other_objects: the entities, in list order, for
\* which the loop reaches self.game.trigger_crash().
Collided(o) ==
    ~is_outside(collision_box(position["car"], "car", window),
                collision_box(position[o], o, window))

\* The entity-entity check without the test "object == self".
OtherObjectCrashesWithSelf ==
    SelectSeq(objects, LAMBDA o : is_solid[o] /\ Collided(o))

OtherObjectCrashes ==
    SelectSeq(objects, LAMBDA o : is_solid[o] /\ Collided(o) /\ o # "car")

CheckCollisionWithOtherObjects ==
    /\ AtTask("check_collision_with_other_objects")
    /\ trigger_crash(OtherObjectCrashes)
    /\ TaskDone
    /\ UNCHANGED <<window, old_window_dimensions, exited, entity_vars,
                   input_vars, error, events_left, last_event>>

\* Car.set_velocity_from_keypresses
KeyVelocity(v, pressed) ==
    IF Len(pressed) = 0 THEN <<0, v[2]>>
    ELSE LET pressed_direction == pressed[Len(pressed)]
         IN  IF pressed_direction = "LEFT" THEN shove_x(v, CarBaseSpeed, -1)
             ELSE IF pressed_direction = "RIGHT" THEN shove_x(v, CarBaseSpeed, 1)
             ELSE v

SetVelocityFromKeypresses ==
    /\ AtTask("set_velocity_from_keypresses")
    /\ velocity' = [velocity EXCEPT !["car"] = KeyVelocity(@, pressed_directions)]
    /\ TaskDone
    /\ UNCHANGED <<window, old_window_dimensions, has_died, exited, objects,
                   position, tick_tasks, is_solid, window_resize_handler,
                   input_vars, error, crash_calls, events_left, last_event>>

\* Car.move_towards_movement_target
\* The x the player steers to: the last-added target, resolved.
TargetX(targets, win) ==
    resolve_percentage(targets[Len(targets)].point, win, R(0), R(0))[1]

\* target x minus the x of the player's centre.
PixelsDifference(p, targets, win) ==
    RSub(TargetX(targets, win), center(collision_box(p, "car", win))[1])

\* The pointer step evaluated whatever keys are held.
FollowsPointerDespiteKeys(targets, pressed) == Len(targets) > 0

\* Whether the pointer step is evaluated at all.
FollowsPointer(targets, pressed) == Len(targets) > 0 /\ Len(pressed) = 0

\* A pointer step that never moves the player straight onto the target.
SnapsNever(pixels_difference) == FALSE

\* Whether it moves the player straight onto the target.
Snaps(pixels_difference) == RLe(RAbs(pixels_difference), R(CarBaseSpeed))

\* The snap that puts the player's left edge, not its centre, on the target.
SnapPositionLeftEdge(p, targets, win) ==
    move_to(p, <<TargetX(targets, win), coordinates(p, "car", win)[2]>>, win,
            width("car"), height("car"))

\* The snap that puts the player's centre on the target on both axes.
SnapPositionBothAxes(p, targets, win) ==
    LET target == resolve_percentage(targets[Len(targets)].point, win, R(0), R(0))
    IN  move_to(p, <<RSub(target[1], RHalf(width("car"))),
                     RSub(target[2], RHalf(height("car")))>>,
                win, width("car"), height("car"))

SnapPosition(p, targets, win) ==
    LET old_y == coordinates(p, "car", win)[2]
        move_to_x == RSub(TargetX(targets, win), RHalf(width("car")))
    IN  move_to(p, <<move_to_x, old_y>>, win, width("car"), height("car"))

PointerVelocity(v, pixels_difference) ==
    IF RLt(R(0), pixels_difference) THEN shove_x(v, CarBaseSpeed, 1)
    ELSE IF RLt(pixels_difference, R(0)) THEN shove_x(v, CarBaseSpeed, -1)
    ELSE v

MoveTowardsMovementTarget ==
    /\ AtTask("move_towards_movement_target")
    /\ IF ~FollowsPointer(movement_targets, pressed_directions)
       THEN UNCHANGED <<position, velocity>>
       ELSE LET d == PixelsDifference(position["car"], movement_targets, window)
            IN  IF Snaps(d)
                THEN /\ position' = [position EXCEPT !["car"] =
                            SnapPosition(@, movement_targets, window)]
                     /\ velocity' = velocity
                ELSE /\ velocity' = [velocity EXCEPT !["car"] = PointerVelocity(@, d)]
                     /\ position' = position
    /\ TaskDone
    /\ UNCHANGED <<window, old_window_dimensions, has_died, exited, objects,
                   tick_tasks, is_solid, window_resize_handler, input_vars,
                   error, crash_calls, events_left, last_event>>

\* The end of a frame (lines 375-376), then the test of the session's loop
\* (line 357): another frame, or the end of the session (lines 381-383).
SessionContinues == ~has_died /\ ~exited

EndFrame ==
    /\ pc = "frame_end" /\ error = "none"
    /\ IF SessionContinues
       THEN /\ pc' = "events"
            /\ frame' = IF frame <= MaxInputFrames THEN frame + 1 ELSE frame
            /\ UNCHANGED <<entity_vars, key_action_callbacks, key_up_callbacks>>
       ELSE /\ pc' = "run"
            /\ frame' = 0
            /\ objects' = <<>>
            /\ position' = EmptyMap
            /\ velocity' = EmptyMap
            /\ tick_tasks' = EmptyMap
            /\ is_solid' = EmptyMap
            /\ window_resize_handler' = EmptyMap
            /\ key_action_callbacks' = {}
            /\ key_up_callbacks' = EmptyMap
    /\ UNCHANGED <<window, old_window_dimensions, has_died, exited,
                   pressed_directions, movement_targets, held_keys, obj_idx,
                   task_idx, error, crash_calls, ran, events_left, last_event>>

Next ==
    \/ GameSession
    \/ Quit
    \/ OnQuit
    \/ OnVideoResize
    \/ OnKeyDown
    \/ OnKeyUp
    \/ OnFingerDown
    \/ OnFingerMotion
    \/ OnFingerUp
    \/ SpawnCheck
    \/ VelocityOnTick
    \/ CheckCollisionWithWindowEdge
    \/ CheckCollisionWithOtherObjects
    \/ SetVelocityFromKeypresses
    \/ MoveTowardsMovementTarget
    \/ EndFrame

Spec == Init /\ [][Next]_vars

\* Game.run and Game.game_session are loops of one thread that block nowhere
\* (trigger_crash sleeps for two seconds and returns), so the program always
\* takes its next step; the arrival of an event is left to the environment.
\* The steps of one frame of game_session:
Frame ==
    \/ SpawnCheck
    \/ VelocityOnTick
    \/ CheckCollisionWithWindowEdge
    \/ CheckCollisionWithOtherObjects
    \/ SetVelocityFromKeypresses
    \/ MoveTowardsMovementTarget
    \/ EndFrame

\* ENABLED <<Frame>>_vars written out: each of the three places of a frame
\* has exactly one step of Frame to take, and every such step changes pc,
\* ran or frame.
InFrame == error = "none" /\ pc \in {"events", "tick", "frame_end"}

\* WF_vars(Frame), with InFrame for ENABLED <<Frame>>_vars.
FrameFairness == []<>(~InFrame) \/ []<><<Frame>>_vars

SpecLive ==
    Init /\ [][Next]_vars /\ WF_vars(GameSession \/ Quit) /\ FrameFairness

(***************************************************************************)
(* The point specifiers on their own: a PixelsPoint with any corner, in    *)
(* any of a few windows, moved by its methods.  The point is kept in       *)
(* position["point"]; last_event records the call made last.               *)
(***************************************************************************)
\* Calls made on the point in one run.
MaxPointCalls == 2
PointWindows == {<<300, 300>>, <<800, 400>>}
\* (width, height) of the entity the point places.
PointSizes == {<<R(0), R(0)>>, <<R(40), R(60)>>}
\* The coordinates of the offset the point starts with.
PointCoords == {R(-20), R(0), R(5), <<5, 2>>, R(130)}
\* The coordinates of the targets of move_to.
PointTargets == {R(-20), <<5, 2>>, R(130)}

InitPoint ==
    /\ window \in PointWindows
    /\ old_window_dimensions = window
    /\ has_died = FALSE
    /\ exited = FALSE
    /\ objects = <<>>
    /\ \E x \in PointCoords, y \in PointCoords, relative_to \in Corner :
         position = [o \in {"point"} |-> PixelsPoint(x, y, relative_to)]
    /\ velocity = EmptyMap
    /\ tick_tasks = EmptyMap
    /\ is_solid = EmptyMap
    /\ window_resize_handler = EmptyMap
    /\ pressed_directions = <<>>
    /\ movement_targets = <<>>
    /\ key_action_callbacks = {}
    /\ key_up_callbacks = EmptyMap
    /\ held_keys = <<>>
    /\ pc = "point"
    /\ obj_idx = 0
    /\ task_idx = 0
    /\ error = "none"
    /\ crash_calls = <<>>
    /\ ran = <<>>
    /\ events_left = MaxPointCalls
    /\ frame = 0
    /\ last_event = NoEvent

PointCall(call, new_point) ==
    /\ pc = "point"
    /\ events_left > 0
    /\ events_left' = events_left - 1
    /\ position' = [position EXCEPT !["point"] = new_point]
    /\ last_event' = call
    /\ UNCHANGED <<window, old_window_dimensions, has_died, exited, objects,
                   velocity, tick_tasks, is_solid, window_resize_handler,
                   input_vars, loop_vars, error>>

\* point.move_to(target, width, height)
PointMoveTo ==
    \E tx \in PointTargets, ty \in PointTargets, size \in PointSizes :
        PointCall([type |-> "move_to", target |-> <<tx, ty>>, size |-> size,
                   before |-> position["point"]],
                  move_to(position["point"], <<tx, ty>>, window, size[1], size[2]))

\* point.move_to(point.resolve(game, width, height), width, height)
PointMoveToResolved ==
    \E size \in PointSizes :
        PointCall([type |-> "move_to_resolved", size |-> size,
                   before |-> position["point"]],
                  move_to(position["point"],
                          resolve(position["point"], window, size[1], size[2]),
                          window, size[1], size[2]))

\* point.move_right / move_left / move_down / move_up (pixels)
PointMove ==
    \E pixels \in {R(5), <<5, 2>>}, direction \in {"right", "left", "down", "up"} :
        PointCall([type |-> "move", direction |-> direction, pixels |-> pixels,
                   before |-> position["point"]],
                  CASE direction = "right" -> move_right(position["point"], pixels)
                    [] direction = "left" -> move_left(position["point"], pixels)
                    [] direction = "down" -> move_down(position["point"], pixels)
                    [] direction = "up" -> move_up(position["point"], pixels))

\* point.move_right(pixels) followed by point.move_left(pixels)
PointMoveRightLeft ==
    \E pixels \in {R(5), <<5, 2>>} :
        PointCall([type |-> "move_right_left", pixels |-> pixels,
                   before |-> position["point"]],
                  move_left(move_right(position["point"], pixels), pixels))

\* point.resolve(game, width, height)
PointResolve ==
    \E size \in PointSizes :
        PointCall([type |-> "resolve", size |-> size,
                   result |-> resolve(position["point"], window, size[1], size[2])],
                  position["point"])

\* The window gets other dimensions between two calls: Game.width and
\* Game.height read the size of the display surface at each call.
PointResize ==
    /\ pc = "point"
    /\ events_left > 0
    /\ events_left' = events_left - 1
    /\ \E dimensions \in PointWindows \ {window} : window' = dimensions
    /\ last_event' = [type |-> "resize"]
    /\ UNCHANGED <<old_window_dimensions, has_died, exited, entity_vars,
                   input_vars, loop_vars, error>>

NextPoint ==
    \/ PointMoveTo
    \/ PointMoveToResolved
    \/ PointMove
    \/ PointMoveRightLeft
    \/ PointResolve
    \/ PointResize

SpecPoint == InitPoint /\ [][NextPoint]_vars

(***************************************************************************)
(* Box alone: two boxes, position["this"] and position["other"], and the   *)
(* calls this.is_outside(other) and this.is_inside(other, margin);         *)
(* last_event records the call made last and what it returned.             *)
(***************************************************************************)
\* Calls made on the boxes in one run.
MaxBoxCalls == 1
\* The extent (from, to) of a box on one axis.
BoxSpans == {<<0, 10>>, <<0, 9>>, <<5, 15>>, <<10, 20>>, <<20, 30>>}
BoxMargins == {R(0), R(1), R(5)}
Boxes == {Box(R(sx[1]), R(sy[1]), R(sx[2]), R(sy[2])) : sx \in BoxSpans, sy \in BoxSpans}

InitBox ==
    /\ window = <<InitialWidth, InitialHeight>>
    /\ old_window_dimensions = window
    /\ has_died = FALSE
    /\ exited = FALSE
    /\ objects = <<>>
    /\ \E self \in Boxes, other_box \in Boxes :
         position = [o \in {"this", "other"} |->
                        IF o = "this" THEN self ELSE other_box]
    /\ velocity = EmptyMap
    /\ tick_tasks = EmptyMap
    /\ is_solid = EmptyMap
    /\ window_resize_handler = EmptyMap
    /\ pressed_directions = <<>>
    /\ movement_targets = <<>>
    /\ key_action_callbacks = {}
    /\ key_up_callbacks = EmptyMap
    /\ held_keys = <<>>
    /\ pc = "box"
    /\ obj_idx = 0
    /\ task_idx = 0
    /\ error = "none"
    /\ crash_calls = <<>>
    /\ ran = <<>>
    /\ events_left = MaxBoxCalls
    /\ frame = 0
    /\ last_event = NoEvent

BoxCall(call) ==
    /\ pc = "box"
    /\ events_left > 0
    /\ events_left' = events_left - 1
    /\ last_event' = call
    /\ UNCHANGED <<window, old_window_dimensions, has_died, exited, entity_vars,
                   input_vars, loop_vars, error>>

\* this.is_outside(other) and other.is_outside(this)
BoxIsOutside ==
    BoxCall([type |-> "is_outside",
             result |-> is_outside(position["this"], position["other"]),
             swapped |-> is_outside(position["other"], position["this"])])

\* this.is_inside(other, allowed_margin)
BoxIsInside ==
    \E allowed_margin \in BoxMargins :
        BoxCall([type |-> "is_inside", allowed_margin |-> allowed_margin,
                 result |-> is_inside(position["this"], position["other"],
                                      allowed_margin)])

NextBox ==
    \/ BoxIsOutside
    \/ BoxIsInside

SpecBox == InitBox /\ [][NextBox]_vars

(***************************************************************************)
(* Properties.                                                             *)
(***************************************************************************)
InSession == pc \in {"events", "tick", "frame_end"}
Last(seq) == seq[Len(seq)]
\* The tick task run last in this frame is task of entity o.
AfterTask(o, task) ==
    /\ pc \in {"tick", "frame_end"}
    /\ ran # <<>>
    /\ Last(ran) = <<o, task>>
\* The player's tick tasks run so far in this frame, in order.
CarRan ==
    LET r == SelectSeq(ran, LAMBDA e : e[1] = "car")
    IN  [i \in 1..Len(r) |-> r[i][2]]
Count(seq, value) == Cardinality({i \in 1..Len(seq) : seq[i] = value})
IsPrefix(a, b) == Len(a) <= Len(b) /\ \A i \in 1..Len(a) : a[i] = b[i]
CarX == coordinates(position["car"], "car", window)[1]
CarCenter == center(collision_box(position["car"], "car", window))

\* C1: in one frame Game.trigger_crash is called at most once, even when the
\* player is past the window edge and overlaps other solid entities.
C1_CrashAtMostOncePerFrame == Len(crash_calls) <= 1

\* C2: with the player's box at left x = 280 in a 300-wide window (width 40,
\* margin 20), is_inside is false and the window-edge check triggers the
\* crash exactly once.
C2_CrashAt280 ==
    (AfterTask("car", "check_collision_with_window_edge")
        /\ window[1] = 300 /\ CarX = R(280))
    => /\ ~is_inside(collision_box(position["car"], "car", window),
                     window_box(window), R(20))
       /\ Count(crash_calls, "window_edge") = 1

\* C2 as amended: at left x = 280 the overflow equals the margin, is_inside
\* is true and the window-edge check triggers no crash; one step further, at
\* left x = 285, is_inside is false and the check triggers the crash exactly
\* once.
C2_NoCrashAt280 ==
    (AfterTask("car", "check_collision_with_window_edge") /\ window[1] = 300)
    => /\ CarX = R(280) =>
            /\ is_inside(collision_box(position["car"], "car", window),
                         window_box(window), R(20))
            /\ Count(crash_calls, "window_edge") = 0
       /\ CarX = R(285) =>
            /\ ~is_inside(collision_box(position["car"], "car", window),
                          window_box(window), R(20))
            /\ Count(crash_calls, "window_edge") = 1

C2_Witness ==
    /\ AfterTask("car", "check_collision_with_window_edge")
    /\ window[1] = 300 /\ CarX = R(280)
    /\ crash_calls = <<>>

\* C3: a resize event whose old centre-bounds box has no width or no height
\* for an entity does not fail, and leaves that entity's coordinate on that
\* axis unchanged.
C3_DegenerateResizeSkipped ==
    last_event.type = "VIDEORESIZE" =>
        \A i \in 1..Len(objects) :
            LET o == objects[i]
                old == calculate_center_bounds(o, R(last_event.old_dimensions[1]),
                                                  R(last_event.old_dimensions[2]))
                was == coordinates(last_event.old_position[o], o, last_event.old_dimensions)
                now == coordinates(position[o], o, window)
            IN  window_resize_handler[o] =>
                    /\ (RZero(old.width) \/ RZero(old.height)) => error = "none"
                    /\ RZero(old.width) => now[1] = was[1]
                    /\ RZero(old.height) => now[2] = was[2]

\* C4: in every frame the player's tick tasks run in the order window-edge
\* check, entity-entity check, velocity from keys, pointer targets, velocity
\* application.
C4_VelocityAppliedLast ==
    (pc = "frame_end" /\ Len(CarRan) = 5)
    => CarRan = <<"check_collision_with_window_edge",
                  "check_collision_with_other_objects",
                  "set_velocity_from_keypresses",
                  "move_towards_movement_target", "on_tick">>

\* C4 as amended: in every frame the player's tick tasks run in the order
\* velocity application, window-edge check, entity-entity check, velocity
\* from keys, pointer targets.
C4_VelocityAppliedFirst ==
    LET order == <<"on_tick", "check_collision_with_window_edge",
                   "check_collision_with_other_objects",
                   "set_velocity_from_keypresses",
                   "move_towards_movement_target">>
    IN  /\ pc = "tick" => IsPrefix(CarRan, order)
        /\ pc = "frame_end" => CarRan = order

C4_Witness == pc = "frame_end" /\ Len(CarRan) = 5 /\ ~has_died

\* C5: once trigger_crash has fired, has_died stays true for the rest of the
\* session and no further tick task or position update of any entity is
\* executed in that session.
C5_CrashIsTerminal ==
    [][(has_died /\ pc # "run")
        => /\ has_died'
           /\ ran' = ran
           /\ (objects' # <<>> => position' = position)]_vars

\* C6: after move_to(T, w, h) a resolve(w, h) in the same window returns
\* exactly T, for every corner; and move_to(resolve(w, h), w, h) leaves the
\* stored offset and the resolved value unchanged.
C6_MoveToInvertsResolve ==
    /\ last_event.type = "move_to" =>
           resolve(position["point"], window, last_event.size[1], last_event.size[2])
               = last_event.target
    /\ last_event.type = "move_to_resolved" =>
           /\ position["point"] = last_event.before
           /\ resolve(position["point"], window, last_event.size[1], last_event.size[2])
                  = resolve(last_event.before, window, last_event.size[1],
                            last_event.size[2])

C6_Witness ==
    /\ last_event.type = "move_to"
    /\ position["point"].relative_to = BOTOM_RIGHT
    /\ last_event.size = <<R(40), R(60)>>
    /\ position["point"] # last_event.before
    /\ resolve(position["point"], window, R(40), R(60)) = <<<<5, 2>>, R(130)>>

\* C7: in a tick with a direction held and a pointer target active, the
\* pointer step changes neither the velocity nor the position, and velocity.x
\* is the value derived from the key pressed last.
C7_KeyOverridesPointer ==
    [][(AtTask("move_towards_movement_target")
          /\ Len(pressed_directions) > 0 /\ Len(movement_targets) > 0)
        => /\ velocity' = velocity
           /\ position' = position
           /\ velocity'["car"][1] =
                 (IF Last(pressed_directions) = "RIGHT"
                  THEN CarBaseSpeed ELSE -CarBaseSpeed)]_vars

C7_Witness ==
    /\ AfterTask("car", "move_towards_movement_target")
    /\ Len(pressed_directions) > 0 /\ Len(movement_targets) > 0
    /\ Last(pressed_directions) = "RIGHT"
    /\ RLt(TargetX(movement_targets, window), CarCenter[1])
    /\ velocity["car"][1] = CarBaseSpeed

\* C8: with no key held and a pointer target at most base_speed away from
\* the player's centre x when the pointer step runs, the step leaves the
\* centre x exactly on the target x and velocity.x at 0.
C8_SnapNotOvershoot ==
    [][(AtTask("move_towards_movement_target")
          /\ Len(pressed_directions) = 0 /\ Len(movement_targets) > 0
          /\ RLe(RAbs(RSub(TargetX(movement_targets, window), CarCenter[1])),
                 R(CarBaseSpeed)))
        => /\ center(collision_box(position'["car"], "car", window))[1]
                 = TargetX(movement_targets, window)
           /\ velocity'["car"][1] = 0]_vars

\* Base speed 5, target 3px right of the centre: the centre is on the target.
C8_Witness ==
    /\ AfterTask("car", "move_towards_movement_target")
    /\ Len(pressed_directions) = 0 /\ Len(movement_targets) > 0
    /\ frame = 1 /\ window = <<300, 300>>
    /\ TargetX(movement_targets, window) = R(153)
    /\ CarCenter[1] = R(153)
    /\ velocity["car"][1] = 0

\* C9: after a resize that every handler completed, the centre of each entity
\* with a resize handler and a non-degenerate old centre-bounds box has the
\* same fractional position in the new centre-bounds box as it had in the old
\* one; a centre fraction of 1/2 on an axis puts the centre on the middle of
\* the new window on that axis.
C9_ResizePreservesPlacement ==
    (last_event.type = "VIDEORESIZE" /\ error = "none") =>
        \A i \in 1..Len(objects) :
            LET o == objects[i]
                old == calculate_center_bounds(o, R(last_event.old_dimensions[1]),
                                                  R(last_event.old_dimensions[2]))
                new == calculate_center_bounds(o, R(last_event.w), R(last_event.h))
                was == center(collision_box(last_event.old_position[o], o,
                                            last_event.old_dimensions))
                now == center(collision_box(position[o], o, window))
            IN  (window_resize_handler[o] /\ ~RZero(old.width) /\ ~RZero(old.height))
                => /\ RMul(RSub(now[1], left(new)), old.width)
                          = RMul(RSub(was[1], left(old)), new.width)
                   /\ RMul(RSub(now[2], top(new)), old.height)
                          = RMul(RSub(was[2], top(old)), new.height)
                   /\ RMul(RSub(was[1], left(old)), R(2)) = old.width
                          => now[1] = RHalf(R(last_event.w))
                   /\ RMul(RSub(was[2], top(old)), R(2)) = old.height
                          => now[2] = RHalf(R(last_event.h))

\* The player, centred in the 300-wide window, is centred in the 800-wide one.
C9_Witness ==
    /\ last_event.type = "VIDEORESIZE" /\ error = "none"
    /\ last_event.old_dimensions = <<300, 300>>
    /\ window = <<800, 400>>
    /\ center(collision_box(last_event.old_position["car"], "car", <<300, 300>>))[1]
           = R(150)
    /\ CarCenter[1] = R(400)

\* C10: no percentage point with x or y outside [0, 1) exists, and a
\* finger-down or finger-motion event with a coordinate outside [0, 1) fails
\* at construction and stores no movement target.
InUnitInterval(x) == x[1] >= 0 /\ x[1] < x[2]

C10_PercentageOutsideUnitRejected ==
    /\ \A i \in 1..Len(movement_targets) :
           /\ InUnitInterval(movement_targets[i].point.x)
           /\ InUnitInterval(movement_targets[i].point.y)
    /\ (last_event.type \in {"FINGERDOWN", "FINGERMOTION"}
          /\ ~(InUnitInterval(last_event.x) /\ InUnitInterval(last_event.y)))
       => /\ error = "AssertionError"
          /\ ~\E i \in 1..Len(movement_targets) :
                 /\ movement_targets[i].point.x = last_event.x
                 /\ movement_targets[i].point.y = last_event.y

C10_Witness ==
    /\ last_event.type = "FINGERDOWN"
    /\ last_event.x = R(1)
    /\ error = "AssertionError"
    /\ movement_targets = <<>>

\* C11: a FINGERUP event whose finger id has no movement target does not fail
\* and changes neither the movement targets, the pressed directions, the
\* entities' positions and velocities, nor the state of the session.
C11_UnknownFingerUpIsNoOp ==
    [][(/\ events_left' = events_left - 1
        /\ last_event'.type = "FINGERUP"
        /\ ~last_event'.known)
        => /\ error' = "none"
           /\ movement_targets' = movement_targets
           /\ pressed_directions' = pressed_directions
           /\ position' = position
           /\ velocity' = velocity
           /\ UNCHANGED <<window, old_window_dimensions, has_died, exited,
                          objects, tick_tasks, key_action_callbacks,
                          key_up_callbacks, pc, frame>>]_vars

C11_Witness ==
    /\ last_event.type = "FINGERUP"
    /\ ~last_event.known
    /\ movement_targets # <<>>
    /\ error = "none"

\* C12: Box.is_outside(other) is true exactly when this.right < other.left or
\* this.left > other.right or this.bottom < other.top or this.top >
\* other.bottom; boxes that touch along an edge or at a corner are not
\* outside each other; (0,0,10,10) is outside (20,20,30,30) and not outside
\* (5,5,15,15); the predicate is symmetric.
C12_IsOutsideSeparatingAxis ==
    last_event.type = "is_outside" =>
        LET this == position["this"]
            other == position["other"]
            \* Boxes holds whole-pixel coordinates only
            separated == \/ this.x2[1] < other.x1[1] \/ this.x1[1] > other.x2[1]
                         \/ this.y2[1] < other.y1[1] \/ this.y1[1] > other.y2[1]
            touching == ~separated /\ (\/ this.x2 = other.x1 \/ this.x1 = other.x2
                                        \/ this.y2 = other.y1 \/ this.y1 = other.y2)
        IN  /\ last_event.result = separated
            /\ touching => ~last_event.result
            /\ last_event.swapped = last_event.result
            /\ this = Box(R(0), R(0), R(10), R(10)) =>
                  /\ other = Box(R(20), R(20), R(30), R(30)) => last_event.result
                  /\ other = Box(R(5), R(5), R(15), R(15)) => ~last_event.result

C12_Witness ==
    /\ last_event.type = "is_outside"
    /\ position["this"] = Box(R(0), R(0), R(10), R(10))
    /\ position["other"] = Box(R(10), R(10), R(20), R(20))
    /\ ~last_event.result

\* C13: Box.is_inside(outer, margin) is true exactly when no edge of this box
\* lies more than margin beyond the same edge of outer, an overflow equal to
\* the margin being inside; with margin 0 no edge may lie beyond outer's at
\* all; (0,0,10,10) is inside (0,0,9,9) with margin 1 and not with margin 0.
C13_IsInsideWithMargin ==
    last_event.type = "is_inside" =>
        LET this == position["this"]
            outer == position["other"]
            margin == last_event.allowed_margin[1]
            overflows == {outer.x1[1] - this.x1[1], this.x2[1] - outer.x2[1],
                          outer.y1[1] - this.y1[1], this.y2[1] - outer.y2[1]}
        IN  /\ last_event.result = (\A overflow \in overflows : ~(overflow > margin))
            /\ (\E overflow \in overflows : overflow = margin)
                   /\ (\A overflow \in overflows : overflow <= margin)
                => last_event.result
            /\ margin = 0 =>
                  last_event.result =
                      (/\ outer.x1[1] <= this.x1[1] /\ this.x2[1] <= outer.x2[1]
                       /\ outer.y1[1] <= this.y1[1] /\ this.y2[1] <= outer.y2[1])
            /\ (this = Box(R(0), R(0), R(10), R(10))
                   /\ outer = Box(R(0), R(0), R(9), R(9))) =>
                  /\ margin = 1 => last_event.result
                  /\ margin = 0 => ~last_event.result

C13_Witness ==
    /\ last_event.type = "is_inside"
    /\ position["this"] = Box(R(0), R(0), R(10), R(10))
    /\ position["other"] = Box(R(0), R(0), R(9), R(9))
    /\ last_event.allowed_margin = R(1)
    /\ last_event.result

\* C14: PixelsPoint.resolve returns the entity's top-left corner: for offset
\* (x, y), entity size (w, h) and window (W, H) the x-coordinate is x for a
\* left corner and W - x - w for a right corner, the y-coordinate y for a top
\* corner and H - y - h for a bottom corner; a top-left point with offset
\* (5, 5) resolves to (5, 5) in every window, and with offset 0 at a right
\* or bottom corner the entity is flush with that window edge, also after
\* the window has been resized.
C14_ResolveReturnsTopLeft ==
    last_event.type = "resolve" =>
        LET p == position["point"]
            w == last_event.size[1]
            h == last_event.size[2]
            W == R(window[1])
            H == R(window[2])
            x == last_event.result[1]
            y == last_event.result[2]
        IN  /\ p.relative_to \in {TOP_LEFT, BOTOM_LEFT} => x = p.x
            /\ p.relative_to \in {TOP_RIGHT, BOTOM_RIGHT} => x = RSub(RSub(W, p.x), w)
            /\ p.relative_to \in {TOP_LEFT, TOP_RIGHT} => y = p.y
            /\ p.relative_to \in {BOTOM_LEFT, BOTOM_RIGHT} => y = RSub(RSub(H, p.y), h)
            /\ p = PixelsPoint(R(5), R(5), TOP_LEFT) => last_event.result = <<R(5), R(5)>>
            /\ (p.relative_to \in {TOP_RIGHT, BOTOM_RIGHT} /\ p.x = R(0)) => RAdd(x, w) = W
            /\ (p.relative_to \in {BOTOM_LEFT, BOTOM_RIGHT} /\ p.y = R(0)) => RAdd(y, h) = H

C14_Witness ==
    /\ last_event.type = "resolve"
    /\ window # old_window_dimensions
    /\ position["point"] = PixelsPoint(R(0), R(0), BOTOM_RIGHT)
    /\ last_event.size = <<R(40), R(60)>>
    /\ last_event.result = <<R(window[1] - 40), R(window[2] - 60)>>

\* C15: for every corner move_right(p) increases the resolved x by exactly p,
\* move_left(p) decreases it by p, move_down(p) increases the resolved y by p
\* and move_up(p) decreases it by p, each leaving the other resolved
\* coordinate unchanged; move_left(p) after move_right(p) restores the
\* stored offset.
C15_MovesFollowScreenDirections ==
    /\ last_event.type = "move" =>
          \A size \in PointSizes :
              LET was == resolve(last_event.before, window, size[1], size[2])
                  now == resolve(position["point"], window, size[1], size[2])
                  p == last_event.pixels
              IN  /\ last_event.direction = "right" =>
                        now[1] = RAdd(was[1], p) /\ now[2] = was[2]
                  /\ last_event.direction = "left" =>
                        now[1] = RSub(was[1], p) /\ now[2] = was[2]
                  /\ last_event.direction = "down" =>
                        now[2] = RAdd(was[2], p) /\ now[1] = was[1]
                  /\ last_event.direction = "up" =>
                        now[2] = RSub(was[2], p) /\ now[1] = was[1]
    /\ last_event.type = "move_right_left" =>
          position["point"] = last_event.before

C15_Witness ==
    /\ last_event.type = "move"
    /\ last_event.direction = "right"
    /\ last_event.before.relative_to = BOTOM_RIGHT
    /\ position["point"].x = RSub(last_event.before.x, last_event.pixels)

\* C16: the window-edge check triggers the crash in a frame exactly when, as
\* the check runs, the player's collision box lies beyond some edge of the
\* window by strictly more than half the player's width; with an overflow of
\* at most half the width on every side it triggers no crash.
C16_EdgeCrashBeyondHalfWidth ==
    AfterTask("car", "check_collision_with_window_edge") =>
        LET xy == coordinates(position["car"], "car", window)
            half_width == <<CarWidth, 2>>
            overflows == {RNeg(xy[1]),
                          RSub(RAdd(xy[1], R(CarWidth)), R(window[1])),
                          RNeg(xy[2]),
                          RSub(RAdd(xy[2], R(CarHeight)), R(window[2]))}
        IN  /\ (\E overflow \in overflows : RLt(half_width, overflow))
                    => crash_calls = <<"window_edge">>
            /\ (\A overflow \in overflows : RLe(overflow, half_width))
                    => crash_calls = <<>>

C16_Witness ==
    /\ AfterTask("car", "check_collision_with_window_edge")
    /\ CarX = R(-25)
    /\ crash_calls = <<"window_edge">>

\* C17: the entity-entity check triggers the crash in a frame if and only if
\* the player's collision box overlaps the collision box of at least one
\* other solid entity of the session's entity list; the player itself and
\* non-solid entities never cause a crash.
C17_EntityCrashIffOverlap ==
    AfterTask("car", "check_collision_with_other_objects") =>
        LET box(o) == collision_box(position[o], o, window)
            overlap(a, b) == /\ RLe(a.x1, b.x2) /\ RLe(b.x1, a.x2)
                             /\ RLe(a.y1, b.y2) /\ RLe(b.y1, a.y2)
            others == {objects[i] : i \in 1..Len(objects)} \ {"car"}
            causes == {crash_calls[i] : i \in 1..Len(crash_calls)} \ {"window_edge"}
        IN  /\ (causes # {}) =
                  (\E o \in others : is_solid[o] /\ overlap(box("car"), box(o)))
            /\ \A o \in causes :
                  o \in others /\ is_solid[o] /\ overlap(box("car"), box(o))

C17_Witness ==
    /\ AfterTask("car", "check_collision_with_other_objects")
    /\ window = <<InitialWidth, InitialHeight>>
    /\ crash_calls = <<"block">>
    /\ velocity["car"] = <<0, 0>>

\* The direction whose key was pressed last among the direction keys that the
\* session's key events leave held, "NONE" when none is held.
LatestHeldDirection ==
    IF held_keys = <<>> THEN "NONE"
    ELSE DirectionOf(keybinds[Last(held_keys)])

\* C18: after any sequence of key-down and key-up events for move.left and
\* move.right, the key step of a tick sets velocity.x to +base_speed if the
\* direction pressed last among those still held is right, to -base_speed if
\* it is left, and to 0 when no direction is held.
C18_VelocityFollowsLatestHeldKey ==
    AfterTask("car", "set_velocity_from_keypresses") =>
        velocity["car"][1] =
            CASE LatestHeldDirection = "RIGHT" -> CarBaseSpeed
              [] LatestHeldDirection = "LEFT" -> -CarBaseSpeed
              [] OTHER -> 0

\* C19: after any sequence of key-down and key-up events delivered within a
\* session, repeated key-downs and key-ups of released keys included, the
\* pressed-directions stack contains a direction if and only if its key is
\* held, each held key appears once, and handling a key-up never fails.
C19_StackTracksHeldKeys ==
    /\ error # "ValueError"
    /\ InSession =>
          \A key \in DOMAIN keybinds :
              LET direction == DirectionOf(keybinds[key])
              IN  /\ Contains(pressed_directions, direction) = Contains(held_keys, key)
                  /\ Count(pressed_directions, direction) <= 1

\* The session runs, no direction is held and a pointer target is stored.
Following ==
    /\ InSession /\ ~has_died /\ error = "none"
    /\ Len(pressed_directions) = 0
    /\ Len(movement_targets) > 0
\* The distance between the x of the centre of the player at point p and the
\* x of the latest target.
DistanceAt(p) == RAbs(PixelsDifference(p, movement_targets, window))
Distance == DistanceAt(position["car"])
OnTarget == Following /\ RZero(Distance)
\* v points at the latest target with base_speed, for the player at point p.
AimedAt(p, v) ==
    LET d == PixelsDifference(p, movement_targets, window)
    IN  \/ RLt(R(0), d) /\ v[1] = CarBaseSpeed
        \/ RLt(d, R(0)) /\ v[1] = -CarBaseSpeed
Aimed == AimedAt(position["car"], velocity["car"])
\* The step is the player's tick task named task; a tick task changes neither
\* the targets nor the window.
CarStep(task) == ran' = Append(ran, <<"car", task>>)

\* If from some frame on no direction is held, a target stays stored and no
\* crash occurs, the player's centre x eventually equals the target's x and
\* stays equal to it.
Converges == <>[]Following => <>[]OnTarget

\* C20: pointer-follow converges: if from some frame on no key is held, the
\* latest target stays fixed, the window is not resized and no crash occurs,
\* the player's centre x eventually equals the target's x and stays equal to
\* it; each tick before that reduces the distance by exactly base_speed, and
\* no tick increases it.
C20_EachTickReducesByBaseSpeed ==
    /\ Converges
    /\ [][(CarStep("on_tick") /\ Following
                /\ RLt(R(CarBaseSpeed), DistanceAt(position'["car"])))
             => DistanceAt(position'["car"]) = RSub(Distance, R(CarBaseSpeed))]_vars
    /\ [][((CarStep("on_tick") \/ CarStep("move_towards_movement_target"))
                /\ Following)
             => RLe(DistanceAt(position'["car"]), Distance)]_vars

\* C20 as amended: under the same conditions the player's centre x eventually
\* equals the target's x and stays equal to it.  A tick first applies the
\* velocity the tick before left: once that velocity is base_speed towards
\* the target and the target is more than base_speed away, applying it
\* reduces the distance by exactly base_speed; the pointer step leaves the
\* velocity so whenever the target is more than base_speed away, and puts
\* the player on the target otherwise, never increasing the distance.
C20_ConvergesOneTickBehind ==
    /\ Converges
    /\ [][(CarStep("on_tick") /\ Following /\ Aimed
                /\ RLt(R(CarBaseSpeed), Distance))
             => DistanceAt(position'["car"]) = RSub(Distance, R(CarBaseSpeed))]_vars
    /\ [][(CarStep("move_towards_movement_target") /\ Following)
             => IF RLt(R(CarBaseSpeed), Distance)
                THEN /\ position' = position
                     /\ AimedAt(position["car"], velocity'["car"])
                ELSE /\ RZero(DistanceAt(position'["car"]))
                     /\ velocity' = velocity]_vars

C20_Witness ==
    /\ OnTarget
    /\ pc = "frame_end"
    /\ window = <<InitialWidth, InitialHeight>>
    /\ CarCenter[1] = R(30)

\* The finger ids of the targets, in the order of the dict.
FingerIdsOf(targets) == [i \in 1..Len(targets) |-> targets[i].finger_id]
\* The finger whose target the pointer step steers to (targets not empty).
last_touched_finger(targets) == Last(FingerIdsOf(targets))
\* The target point stored for an active finger.
PointOf(targets, finger_id) ==
    targets[CHOOSE i \in 1..Len(targets) : targets[i].finger_id = finger_id].point
\* The step is on_event handling an event of the given type without failing.
Handles(type) ==
    /\ events_left' = events_left - 1
    /\ last_event'.type = type
    /\ error' = "none"

\* C21: the pointer step steers to the target of the contact added last among
\* the active ones.  A finger-down of a new id appends it, so it becomes the
\* steering target; a finger-motion of an active id replaces that id's point
\* and leaves the order of the ids, hence the steering id, as it was; a
\* finger-up of an active id removes it and keeps the others in order, so
\* steering falls back to the latest one left; with no direction in the
\* stack the pointer step aims at (or snaps onto) the x of the last id's
\* point, and with no target either the tick leaves velocity.x at 0.
C21_SteersToLatestContact ==
    /\ [][(Handles("FINGERDOWN")
             /\ ~HasTarget(movement_targets, last_event'.finger_id))
          => /\ SubSeq(movement_targets', 1, Len(movement_targets)) = movement_targets
             /\ Len(movement_targets') = Len(movement_targets) + 1
             /\ last_touched_finger(movement_targets') = last_event'.finger_id
             /\ Last(movement_targets').point =
                    PercentagePoint(last_event'.x, last_event'.y)]_vars
    /\ [][(Handles("FINGERMOTION")
             /\ HasTarget(movement_targets, last_event'.finger_id))
          => /\ FingerIdsOf(movement_targets') = FingerIdsOf(movement_targets)
             /\ \A i \in 1..Len(movement_targets) :
                   movement_targets'[i].point =
                       IF movement_targets[i].finger_id = last_event'.finger_id
                       THEN PercentagePoint(last_event'.x, last_event'.y)
                       ELSE movement_targets[i].point]_vars
    /\ [][(Handles("FINGERUP")
             /\ HasTarget(movement_targets, last_event'.finger_id))
          => LET remaining ==
                     SelectSeq(FingerIdsOf(movement_targets),
                               LAMBDA f : f # last_event'.finger_id)
             IN  /\ FingerIdsOf(movement_targets') = remaining
                 /\ \A k \in 1..Len(movement_targets') :
                       movement_targets'[k].point =
                           PointOf(movement_targets, remaining[k])]_vars
    /\ [][(CarStep("move_towards_movement_target") /\ Following)
          => LET target == PointOf(movement_targets,
                                   last_touched_finger(movement_targets))
                 target_x == resolve_percentage(target, window, R(0), R(0))[1]
                 d == RSub(target_x, CarCenter[1])
             IN  IF RLe(RAbs(d), R(CarBaseSpeed))
                 THEN center(collision_box(position'["car"], "car", window))[1]
                          = target_x
                 ELSE /\ position' = position
                      /\ velocity'["car"][1] =
                             (IF RLt(R(0), d) THEN CarBaseSpeed ELSE -CarBaseSpeed)]_vars
    /\ [][(CarStep("move_towards_movement_target")
             /\ Len(pressed_directions) = 0 /\ Len(movement_targets) = 0)
          => /\ velocity'["car"][1] = 0
             /\ position' = position]_vars

\* Finger 1 and then finger 2 were put down, finger 2 was lifted: finger 1,
\* the latest one left, is the steering target again.
C21_Witness ==
    /\ pc = "events" /\ error = "none"
    /\ last_event.type = "FINGERUP" /\ last_event.known
    /\ last_event.finger_id = 2
    /\ movement_targets # <<>>
    /\ last_touched_finger(movement_targets) = 1

\* C22: a crash raised by the entity-entity check is caused by the player
\* overlapping the Block: the check reports no entity but the Block, and
\* when it reports one the player's box overlaps the Block's; the FPS counter
\* is never the cause of a crash.
C22_OnlyTheBlockCrashes ==
    /\ \A i \in 1..Len(crash_calls) : crash_calls[i] \in {"window_edge", "block"}
    /\ AfterTask("car", "check_collision_with_other_objects") =>
          ((\E i \in 1..Len(crash_calls) : crash_calls[i] # "window_edge")
              => Collided("block"))

\* The y of the Block's top edge.
BlockY == coordinates(position["block"], "block", window)[2]
\* The step ends the polling of a frame: the test on the Block (lines
\* 364-368), then the first tick task.
FrameStarts == pc = "events" /\ pc' # "events"
\* The Block has passed the bottom edge of the window.
BlockHasLeft == RLt(R(window[2]), BlockY)
\* The session goes on: no crash, no quit, no uncaught exception.
Undisturbed == error = "none" /\ ~has_died /\ ~exited

\* C23: in a running session the entity list holds exactly one player, one
\* Block and one FPS counter; every frame runs the Block's velocity task
\* once, which adds base_speed to the Block's y; a frame that starts with the
\* Block's top edge below the window's bottom edge replaces the Block by a
\* new one at y = -20 (which takes its place at the end of the list), any
\* other frame keeps the Block; and in a run without crash or quit the Block
\* is replaced infinitely often.
C23_ObstacleLifecycle ==
    /\ [](InSession =>
            /\ Len(objects) = 3
            /\ \A o \in {"car", "block", "fps"} : Count(objects, o) = 1)
    /\ [](pc = "frame_end" => Count(ran, <<"block", "on_tick">>) = 1)
    /\ [][ran' = Append(ran, <<"block", "on_tick">>)
            => coordinates(position'["block"], "block", window)
                  = <<coordinates(position["block"], "block", window)[1],
                      RAdd(BlockY, R(BlockBaseSpeed))>>]_vars
    /\ [][FrameStarts
            => IF BlockHasLeft
               THEN /\ coordinates(position'["block"], "block", window)[2]
                          = R(NextBlockSpawnAt)
                    /\ velocity'["block"] = <<0, BlockBaseSpeed>>
                    /\ objects' = <<"car", "fps", "block">>
               ELSE /\ position' = position
                    /\ velocity' = velocity
                    /\ objects' = objects]_vars
    /\ ([]Undisturbed => []<><<FrameStarts /\ BlockHasLeft>>_vars)

\* A frame in which the Block has just been replaced.
C23_Witness ==
    /\ pc = "tick" /\ ran = <<>> /\ Undisturbed
    /\ objects = <<"car", "fps", "block">>
    /\ BlockY = R(NextBlockSpawnAt)
    /\ window = <<InitialWidth, InitialHeight>>

\* The step is the end of a session whose player crashed, no quit received.
CrashEndsSession == pc = "frame_end" /\ pc' = "run" /\ has_died /\ ~exited
\* The step is the start of a session.
SessionStarts == pc = "run" /\ pc' = "events"
\* A session has ended by crash and Game.run is about to test its loop.
Crashed == pc = "run" /\ error = "none" /\ has_died /\ ~exited
\* A session is in its first frame with a player that has not died.
FreshSession == pc = "events" /\ frame = 1 /\ ~has_died

\* C24: the end of a session by crash, no quit event received, empties the
\* entity list and the tables of key-action and key-up callbacks, and a new
\* session follows; a session starts with has_died false, the player
\* horizontally centred with its bottom edge 5px above the bottom of the
\* window, velocity (0, 0), an empty pressed-directions stack and no
\* movement target; once a quit event has been received no session starts.
C24_RestartIsClean ==
    /\ [][CrashEndsSession
            => /\ objects' = <<>>
               /\ key_action_callbacks' = {}
               /\ key_up_callbacks' = EmptyMap]_vars
    /\ (Crashed ~> FreshSession)
    /\ [][SessionStarts
            => LET box == collision_box(position'["car"], "car", window)
               IN  /\ ~exited
                   /\ has_died' = FALSE
                   /\ Count(objects', "car") = 1
                   /\ center(box)[1] = RHalf(R(window[1]))
                   /\ bottom(box) = R(window[2] - 5)
                   /\ velocity'["car"] = <<0, 0>>
                   /\ pressed_directions' = <<>>
                   /\ movement_targets' = <<>>]_vars
    /\ [][exited => (exited' /\ ~SessionStarts)]_vars

\* The first frame of a session that follows a crash in the 800x400 window.
C24_Witness ==
    /\ FreshSession /\ ~exited /\ error = "none"
    /\ crash_calls # <<>>
    /\ window = <<800, 400>>
    /\ position["car"] = PixelsPoint(R(380), R(335), TOP_LEFT)
    /\ objects = <<"car", "block", "fps">>

\* The y of the player's top edge.
CarY == coordinates(position["car"], "car", window)[2]

\* C25: no tick task of the player changes the player's resolved y or its
\* velocity.y, which is 0 throughout a session, whatever keys are held and
\* whatever pointer target is stored, the snap onto a target included; a
\* step of a session that changes the player's y is the handling of a
\* window-resize event.
C25_TickTasksKeepY ==
    /\ [](InSession => velocity["car"][2] = 0)
    /\ [][(\E i \in 1..Len(CarTickTasks) : CarStep(CarTickTasks[i]))
            => /\ coordinates(position'["car"], "car", window)[2] = CarY
               /\ velocity'["car"][2] = velocity["car"][2]]_vars
    /\ [][(InSession /\ pc' \in {"events", "tick", "frame_end"}
                /\ coordinates(position'["car"], "car", window')[2] # CarY)
            => /\ events_left' = events_left - 1
               /\ last_event'.type = "VIDEORESIZE"]_vars

\* After a resize to 800x400 moved the player to y = 3995/12, a pointer snap
\* put its centre on the target at x = 408.
C25_Witness ==
    /\ AfterTask("car", "move_towards_movement_target") /\ Following
    /\ window = <<800, 400>>
    /\ CarY = <<3995, 12>>
    /\ CarCenter[1] = R(408)

=============================================================================
